---- MODULE Spec2Model ----
(***************************************************************************)
(* Model of the repository back end of UnveilAI/uai-backend: the           *)
(* repository service (app/services/repository_service.py), its HTTP       *)
(* endpoints (app/api/endpoints/repositories.py), the explain endpoint     *)
(* (app/api/endpoints/gemini.py) and the question endpoints                *)
(* (app/api/endpoints/questions.py).                                       *)
(*                                                                         *)
(* A Python str is a sequence of one-character strings, so that lower(),   *)
(* splitext(), endswith() and the "in" test are computed on characters.    *)
(* A file's content is the pair (file, number of characters): a slice      *)
(* [:n] of it is the pair (file, min(number, n)).                          *)
(***************************************************************************)
EXTENDS Integers, Sequences, FiniteSets, TLC

VARIABLES
    platform,   \* the value of os.name: "posix" or "nt"
    disk,       \* UPLOAD_DIR: repository id -> [exists, files]
    repos,      \* the in-memory Repository objects create_repository has made
    temp,       \* TEMP_DIR: the repository ids whose uploaded archive is there
    audio,      \* AUDIO_DIR: the audio files generate_audio has left there
    deleting,   \* the delete_audio background tasks scheduled and not yet run
    settings,   \* BLAND_API_KEY and BLAND_API_URL as the environment set them
    bland,      \* the requests the handler in resp has sent to the Bland AI API
    resp        \* the handler that has just run and what it answered

vars == <<platform, disk, repos, temp, audio, deleting, settings, bland, resp>>

----------------------------------------------------------------------------
(* Bounds *)

\* the most files one acquired repository (archive or clone) holds
MaxFiles == 2

\* the most questions whose Question.id and audio file name uuid4 has drawn
MaxQuestions == 1

----------------------------------------------------------------------------
(* Python values *)

\* None; distinct from every str, the empty str included
None == << "<None>" >>

\* bool(x) of an Optional[str]
Truthy(x) == x # None /\ x # << >>

UpperCase ==
    <<"A", "B", "C", "D", "E", "F", "G", "H", "I", "J", "K", "L", "M",
      "N", "O", "P", "Q", "R", "S", "T", "U", "V", "W", "X", "Y", "Z">>

LowerCase ==
    <<"a", "b", "c", "d", "e", "f", "g", "h", "i", "j", "k", "l", "m",
      "n", "o", "p", "q", "r", "s", "t", "u", "v", "w", "x", "y", "z">>

\* str.lower() of one character
LowerChar(c) ==
    IF \E i \in 1..Len(UpperCase) : UpperCase[i] = c
    THEN LowerCase[CHOOSE i \in 1..Len(UpperCase) : UpperCase[i] = c]
    ELSE c

\* str.lower()
lower(s) == [i \in 1..Len(s) |-> LowerChar(s[i])]

\* pattern in s
Contains(pattern, s) ==
    \E i \in 0..(Len(s) - Len(pattern)) :
        SubSeq(s, i + 1, i + Len(pattern)) = pattern

\* s.endswith(suffix)
endswith(s, suffix) ==
    /\ Len(suffix) <= Len(s)
    /\ SubSeq(s, Len(s) - Len(suffix) + 1, Len(s)) = suffix

\* s.rfind(c), 1-based; 0 when c does not occur in s
rfind(s, c) ==
    IF \E i \in 1..Len(s) : s[i] = c
    THEN CHOOSE i \in 1..Len(s) :
             s[i] = c /\ \A j \in (i + 1)..Len(s) : s[j] # c
    ELSE 0

Max(a, b) == IF a >= b THEN a ELSE b

Min(a, b) == IF a <= b THEN a ELSE b

\* the members of a set of integers in increasing order
Sorted(S) ==
    [i \in 1..Cardinality(S) |->
        CHOOSE x \in S : Cardinality({y \in S : y < x}) = i - 1]

\* s[:n]
Prefix(s, n) == SubSeq(s, 1, Min(n, Len(s)))

----------------------------------------------------------------------------
(* The platform: os.sep, os.altsep *)

Platforms == {"posix", "nt"}

sep == IF platform = "nt" THEN "\\" ELSE "/"

\* the characters os.path treats as separators
Separators == IF platform = "nt" THEN {"\\", "/"} ELSE {"/"}

\* os.path.join(parts...) of non-empty relative parts
RECURSIVE join(_)
join(parts) ==
    IF parts = << >> THEN << >>
    ELSE IF Len(parts) = 1 THEN Head(parts)
    ELSE Head(parts) \o <<sep>> \o join(Tail(parts))

\* os.path.splitext(p): <<root, ext>>; the extension starts at the last
\* dot of the last path component, leading dots of the component apart
splitext(p) ==
    LET sepIndex == Max(rfind(p, "/"),
                        IF platform = "nt" THEN rfind(p, "\\") ELSE 0)
        dotIndex == rfind(p, ".")
    IN  IF /\ dotIndex > sepIndex
           /\ \E i \in (sepIndex + 1)..(dotIndex - 1) : p[i] # "."
        THEN <<SubSeq(p, 1, dotIndex - 1), SubSeq(p, dotIndex, Len(p))>>
        ELSE <<p, << >> >>

----------------------------------------------------------------------------
(* The files a repository can hold *)

RepoIds == {"r1", "r2"}

\* str(repository_id)
IdChars(id) == IF id = "r1" THEN <<"r", "1">> ELSE <<"r", "2">>

\* settings.UPLOAD_DIR as os.walk spells it
UPLOAD_DIR == <<"u", "p", "l", "o", "a", "d", "s">>

SrcDir == <<"s", "r", "c">>

\* Every file an archive or a remote repository may hold, in the order
\* os.scandir lists directory entries.  dir: the directories from the
\* repository root down to the file; size: bytes; chars: characters of the
\* decoded content; readable: open() succeeds; broken: the entry is a
\* symbolic link whose target is missing, which os.walk lists among the
\* files and os.stat does not find.
FileUniverse ==
    << [dir |-> <<SrcDir>>, name |-> <<"M", "a", "k", "e", "f", "i", "l", "e">>,
        size |-> 120, chars |-> 120, readable |-> TRUE, broken |-> FALSE],
       [dir |-> << >>, name |-> <<"m", "a", "i", "n", ".", "p", "y">>,
        size |-> 4100, chars |-> 4000, readable |-> TRUE, broken |-> FALSE],
       [dir |-> << >>, name |-> <<"n", "o", "t", "e", "s", ".">>,
        size |-> 10, chars |-> 10, readable |-> FALSE, broken |-> FALSE],
       [dir |-> << >>, name |-> <<"X", ".", "P", "Y">>,
        size |-> 1500, chars |-> 1500, readable |-> TRUE, broken |-> FALSE],
       [dir |-> << >>, name |-> <<"l", "i", "n", "k">>,
        size |-> 0, chars |-> 0, readable |-> FALSE, broken |-> TRUE] >>

FileIds == 1..Len(FileUniverse)

\* the trees a remote repository may hold
Trees == {t \in SUBSET FileIds : Cardinality(t) <= MaxFiles}

\* the trees an archive may leave: ZipFile.extractall writes every member
\* as a regular file or a directory, never as a symbolic link
ZipTrees == {t \in Trees : \A k \in t : ~FileUniverse[k].broken}

\* a directory that does not exist
NoDir == [exists |-> FALSE, files |-> {}]

\* Path.exists() of UPLOAD_DIR / repository_id
Exists(d, id) == d[id].exists

----------------------------------------------------------------------------
(* os.walk *)

\* the files of tree t at or below directory dir
Under(t, dir) ==
    {k \in t : /\ Len(FileUniverse[k].dir) >= Len(dir)
               /\ SubSeq(FileUniverse[k].dir, 1, Len(dir)) = dir}

\* the non-directory entries of directory dir, in scandir order
FilesIn(t, dir) == Sorted({k \in t : FileUniverse[k].dir = dir})

\* the subdirectories of dir, each named by the first file below it
SubDirKeys(t, dir) ==
    {k \in Under(t, dir) :
        /\ Len(FileUniverse[k].dir) > Len(dir)
        /\ \A j \in Under(t, dir) :
              (/\ Len(FileUniverse[j].dir) > Len(dir)
               /\ FileUniverse[j].dir[Len(dir) + 1]
                      = FileUniverse[k].dir[Len(dir) + 1])
              => k <= j}

\* os.walk(top), top-down: the files the two nested for loops visit, in
\* order; a directory's own files come before those of its subdirectories,
\* the subdirectories in listing order (keys: one file below each)
RECURSIVE walk(_, _, _)
walk(t, dir, keys) ==
    IF keys = << >> THEN << >>
    ELSE LET sub == dir \o <<FileUniverse[Head(keys)].dir[Len(dir) + 1]>>
         IN  FilesIn(t, sub)
             \o walk(t, sub, Sorted(SubDirKeys(t, sub)))
             \o walk(t, dir, Tail(keys))

\* for root, _, files in os.walk(repo_dir): for file in files
WalkFiles(t) ==
    FilesIn(t, << >>) \o walk(t, << >>, Sorted(SubDirKeys(t, << >>)))

\* os.path.relpath(os.path.join(root, file), repo_dir)
relpath(k) == join(FileUniverse[k].dir \o <<FileUniverse[k].name>>)

\* os.path.join(root, file), root below os.walk(UPLOAD_DIR / repository_id)
file_path(id, k) ==
    join(<<UPLOAD_DIR, IdChars(id)>> \o FileUniverse[k].dir
         \o <<FileUniverse[k].name>>)

----------------------------------------------------------------------------
(* RepositoryService.  A method is an operator from the disk (and its     *)
(* arguments) to [exc, ret, disk]: the exception it raises ("" for none), *)
(* the value it returns and the disk it leaves.                            *)

\* create_repository_directory: os.makedirs(repo_dir, exist_ok=True)
create_repository_directory(d, repository_id) ==
    [d EXCEPT ![repository_id].exists = TRUE]

\* the extension list comprehension of analyze_repository: one entry per
\* path whose splitext extension is truthy, the dot cut and lower-cased
extensions(all_files) ==
    LET HasExtension(f) == splitext(f)[2] # << >>
        Cut(kept) == [i \in 1..Len(kept) |-> lower(Tail(splitext(kept[i])[2]))]
    IN  Cut(SelectSeq(all_files, HasExtension))

\* dict(Counter(xs))
Counter(xs) ==
    [x \in {xs[i] : i \in 1..Len(xs)} |->
        Cardinality({i \in 1..Len(xs) : xs[i] = x})]

\* analyze_repository(repo_dir) on the tree t of repository id
analyze_repository(t, id) ==
    LET Paths(order) == [i \in 1..Len(order) |-> file_path(id, order[i])]
        repo_info(all_files) ==
            [file_count     |-> Len(all_files),
             language_stats |-> Counter(extensions(all_files))]
    IN  repo_info(Paths(WalkFiles(t)))

\* one FileEntry of get_repository_files
FileEntry(k) ==
    LET file      == FileUniverse[k].name
        extension == splitext(file)[2]
    IN  [path      |-> relpath(k),
         name      |-> file,
         size      |-> FileUniverse[k].size,
         extension |-> IF extension # << >> THEN Tail(extension) ELSE << >>]

\* the filter test of get_repository_files: TRUE when the file is skipped
Filtered(file, file_filter) ==
    Truthy(file_filter) /\ ~endswith(file, <<".">> \o file_filter)

\* a plausible slip: repo_dir taken from create_repository_directory, as
\* create_question takes it, which makes the directory it then looks for
get_repository_files_MakesDir(d, repository_id, file_filter) ==
    LET made == create_repository_directory(d, repository_id)
        Kept(k) == ~Filtered(FileUniverse[k].name, file_filter)
        files_info(ks) ==
            IF \E i \in 1..Len(ks) : FileUniverse[ks[i]].broken
            THEN [exc |-> "FileNotFoundError", ret |-> << >>, disk |-> made]
            ELSE [exc  |-> "",
                  ret  |-> [i \in 1..Len(ks) |-> FileEntry(ks[i])],
                  disk |-> made]
    IN  files_info(SelectSeq(WalkFiles(made[repository_id].files), Kept))

\* get_repository_files(repository_id, file_filter).  os.path.getsize
\* raises FileNotFoundError for a link whose target is missing; the filter
\* is applied before it.
get_repository_files(d, repository_id, file_filter) ==
    IF ~Exists(d, repository_id)
    THEN [exc |-> "FileNotFoundError", ret |-> << >>, disk |-> d]
    ELSE LET Kept(k) == ~Filtered(FileUniverse[k].name, file_filter)
             files_info(ks) ==
                 IF \E i \in 1..Len(ks) : FileUniverse[ks[i]].broken
                 THEN [exc |-> "FileNotFoundError", ret |-> << >>, disk |-> d]
                 ELSE [exc  |-> "",
                       ret  |-> [i \in 1..Len(ks) |-> FileEntry(ks[i])],
                       disk |-> d]
         IN  files_info(SelectSeq(WalkFiles(d[repository_id].files), Kept))

\* the components of a relative path, split at the platform's separators
RECURSIVE Components(_, _)
Components(p, acc) ==
    IF p = << >> THEN (IF acc = << >> THEN << >> ELSE <<acc>>)
    ELSE IF Head(p) \in Separators
         THEN (IF acc = << >> THEN << >> ELSE <<acc>>)
              \o Components(Tail(p), << >>)
         ELSE Components(Tail(p), acc \o <<Head(p)>>)

\* the files of tree t that repo_dir / path names, path given by its
\* components
FilesAt(t, comps) ==
    {k \in t : FileUniverse[k].dir \o <<FileUniverse[k].name>> = comps}

\* TRUE when repo_dir / path names a directory of tree t (or repo_dir)
DirAt(t, comps) ==
    \/ comps = << >>
    \/ \E k \in t :
          /\ Len(FileUniverse[k].dir) >= Len(comps)
          /\ SubSeq(FileUniverse[k].dir, 1, Len(comps)) = comps

\* f.read() of a file opened with errors='replace'
Content(k) == [file |-> k, chars |-> FileUniverse[k].chars]

NoContent == [file |-> 0, chars |-> 0]

\* a file of the host outside UPLOAD_DIR: its absolute path and f.read()
HostPath == <<"/", "e", "t", "c", "/", "h", "o", "s", "t", "s">>

HostContent == [file |-> Len(FileUniverse) + 1, chars |-> 200]

\* the path component ".."
ParentDir == <<".", ".">>

\* TRUE when repo_dir / path leaves repo_dir for the directory of another
\* identifier: "..", then the name of a directory of UPLOAD_DIR
Escapes(comps) ==
    /\ Len(comps) >= 2
    /\ comps[1] = ParentDir
    /\ \E id \in RepoIds : IdChars(id) = comps[2]

\* get_file_content(repository_id, file_path).  Path.exists() follows a
\* symbolic link: it is False for a link whose target is missing.
\* repo_dir / file_path is file_path itself when file_path is absolute
\* (on "nt" a path that starts with a separator is on the current drive,
\* where HostPath names nothing).  A ".." component is resolved by the
\* system: on "posix" through the directory before it, which must exist;
\* on "nt" by cutting the component before it off the path.
get_file_content(d, repository_id, path) ==
    LET comps == Components(path, << >>)
        root  == IF Escapes(comps)
                 THEN CHOOSE id \in RepoIds : IdChars(id) = comps[2]
                 ELSE repository_id
        rest  == IF Escapes(comps) THEN SubSeq(comps, 3, Len(comps))
                 ELSE comps
        t     == d[root].files
        found == FilesAt(t, rest)
    IN  IF path # << >> /\ Head(path) \in Separators
        THEN (IF platform = "posix" /\ path = HostPath
              THEN [exc |-> "", ret |-> HostContent, disk |-> d]
              ELSE [exc |-> "FileNotFoundError", ret |-> NoContent,
                    disk |-> d])
        ELSE IF ~Exists(d, repository_id)
                /\ (~Escapes(comps) \/ platform = "posix")
        THEN [exc |-> "FileNotFoundError", ret |-> NoContent, disk |-> d]
        ELSE IF ~Exists(d, root)
        THEN [exc |-> "FileNotFoundError", ret |-> NoContent, disk |-> d]
        ELSE IF found # {}
        THEN LET k == CHOOSE k \in found : TRUE
             IN  IF FileUniverse[k].broken
                 THEN [exc |-> "FileNotFoundError", ret |-> NoContent,
                       disk |-> d]
                 ELSE IF FileUniverse[k].readable
                 THEN [exc |-> "", ret |-> Content(k), disk |-> d]
                 ELSE [exc |-> "PermissionError", ret |-> NoContent,
                       disk |-> d]
        ELSE IF DirAt(t, rest)
        THEN [exc |-> "IsADirectoryError", ret |-> NoContent, disk |-> d]
        ELSE [exc |-> "FileNotFoundError", ret |-> NoContent, disk |-> d]

\* a plausible slip: shutil.rmtree(self.upload_dir) for
\* shutil.rmtree(repo_dir)
delete_repository_RemovesUploads(d, repository_id, rmtree_ok, rest) ==
    IF ~Exists(d, repository_id)
    THEN [exc |-> "", ret |-> FALSE, disk |-> d]
    ELSE IF rmtree_ok
    THEN [exc |-> "", ret |-> TRUE, disk |-> [id \in RepoIds |-> NoDir]]
    ELSE [exc |-> "", ret |-> FALSE,
          disk |-> [d EXCEPT ![repository_id].files = rest]]

\* delete_repository(repository_id).  shutil.rmtree either removes the
\* whole tree or raises after removing some of it (rest: what is left);
\* the method catches every exception and returns False.
delete_repository(d, repository_id, rmtree_ok, rest) ==
    IF ~Exists(d, repository_id)
    THEN [exc |-> "", ret |-> FALSE, disk |-> d]
    ELSE IF rmtree_ok
    THEN [exc |-> "", ret |-> TRUE,
          disk |-> [d EXCEPT ![repository_id] = NoDir]]
    ELSE [exc |-> "", ret |-> FALSE,
          disk |-> [d EXCEPT ![repository_id].files = rest]]

\* a plausible slip: the temporary file removed after the analysis, inside
\* the try, and so only when nothing raised
upload_zip_repository_RemovesOnSuccess(d, tmp, repository_id, archive, extract_ok, extracted) ==
    LET made == create_repository_directory(d, repository_id)
        Ready(repo_info) ==
            [file_count     |-> repo_info.file_count,
             language_stats |-> repo_info.language_stats,
             status         |-> "ready"]
    IN  IF extract_ok
        THEN [exc  |-> "",
              ret  |-> Ready(analyze_repository(
                                 made[repository_id].files \cup archive,
                                 repository_id)),
              disk |-> [made EXCEPT ![repository_id].files = @ \cup archive],
              temp |-> tmp \ {repository_id}]
        ELSE [exc  |-> "BadZipFile",
              ret  |-> [file_count |-> 0, language_stats |-> << >>,
                        status |-> ""],
              disk |-> [made EXCEPT ![repository_id].files = @ \cup extracted],
              temp |-> tmp]

\* upload_zip_repository(file_path, repository_id), file_path the archive
\* TEMP_DIR holds for the repository (tmp: the archives of TEMP_DIR): the
\* archive holds the tree archive; extraction either completes or raises
\* after writing some of it (extracted); the finally clause removes
\* file_path either way
upload_zip_repository(d, tmp, repository_id, archive, extract_ok, extracted) ==
    LET made == create_repository_directory(d, repository_id)
        Ready(repo_info) ==
            [file_count     |-> repo_info.file_count,
             language_stats |-> repo_info.language_stats,
             status         |-> "ready"]
    IN  IF extract_ok
        THEN [exc  |-> "",
              ret  |-> Ready(analyze_repository(
                                 made[repository_id].files \cup archive,
                                 repository_id)),
              disk |-> [made EXCEPT ![repository_id].files = @ \cup archive],
              temp |-> tmp \ {repository_id}]
        ELSE [exc  |-> "BadZipFile",
              ret  |-> [file_count |-> 0, language_stats |-> << >>,
                        status |-> ""],
              disk |-> [made EXCEPT ![repository_id].files = @ \cup extracted],
              temp |-> tmp \ {repository_id}]

\* clone_git_repository(git_url, repository_id): a completed clone leaves
\* the tree remote; a failed one raises after writing some of it (cloned)
clone_git_repository(d, repository_id, remote, clone_ok, cloned) ==
    LET made == create_repository_directory(d, repository_id)
        Ready(repo_info) ==
            [file_count     |-> repo_info.file_count,
             language_stats |-> repo_info.language_stats,
             status         |-> "ready"]
    IN  IF clone_ok
        THEN [exc  |-> "",
              ret  |-> Ready(analyze_repository(
                                 made[repository_id].files \cup remote,
                                 repository_id)),
              disk |-> [made EXCEPT ![repository_id].files = @ \cup remote]]
        ELSE [exc  |-> "GitCommandError",
              ret  |-> [file_count |-> 0, language_stats |-> << >>,
                        status |-> ""],
              disk |-> [made EXCEPT ![repository_id].files = @ \cup cloned]]

----------------------------------------------------------------------------
(* The endpoints of app/api/endpoints/repositories.py: an operator from   *)
(* the disk and the request to [status, body, disk]                        *)

NoBody == [detail |-> ""]

\* GET /{repository_id}/files
api_get_repository_files(d, repository_id, filter) ==
    LET Answer(r) ==
            IF r.exc = ""
            THEN [status |-> 200, body |-> [files |-> r.ret], disk |-> r.disk]
            ELSE IF r.exc = "FileNotFoundError"
            THEN [status |-> 404, body |-> [detail |-> "Repository not found"],
                  disk |-> r.disk]
            ELSE [status |-> 500, body |-> [detail |-> r.exc], disk |-> r.disk]
    IN  Answer(get_repository_files(d, repository_id, filter))

\* GET /{repository_id}/files/{file_path:path}
api_get_file_content(d, repository_id, path) ==
    LET Answer(r) ==
            IF r.exc = ""
            THEN [status |-> 200, body |-> [content |-> r.ret], disk |-> r.disk]
            ELSE IF r.exc = "FileNotFoundError"
            THEN [status |-> 404, body |-> [detail |-> "File not found"],
                  disk |-> r.disk]
            ELSE [status |-> 500, body |-> [detail |-> r.exc], disk |-> r.disk]
    IN  Answer(get_file_content(d, repository_id, path))

\* DELETE /{repository_id}: the HTTPException(404) of the else branch is
\* raised inside the try and caught by its "except Exception", which
\* raises HTTPException(500) in its place
api_delete_repository(d, repository_id, rmtree_ok, rest) ==
    LET Answer(r) ==
            IF r.ret
            THEN [status |-> 200,
                  body |-> [detail |-> "Repository deleted successfully"],
                  disk |-> r.disk]
            ELSE [status |-> 500,
                  body |-> [detail |-> "404: Repository not found"],
                  disk |-> r.disk]
    IN  Answer(delete_repository(d, repository_id, rmtree_ok, rest))

\* POST /: the validation of create_repository.  "" when a background task
\* is scheduled, else the detail of the HTTPException(400) raised, which
\* the handler's "except Exception" turns into HTTPException(500)
create_repository_error(source, source_url, file) ==
    IF source \in {"github", "git"}
    THEN (IF ~Truthy(source_url)
          THEN "Source URL is required for GitHub/Git repositories" ELSE "")
    ELSE IF source = "zip"
    THEN (IF ~file THEN "File upload is required for ZIP repositories" ELSE "")
    ELSE "Unsupported repository source"

\* GET /: list_repositories
api_list_repositories == [status |-> 200, body |-> [list |-> << >>]]

\* GET /{repository_id}: get_repository
api_get_repository(d, repository_id) ==
    IF ~Exists(d, repository_id)
    THEN [status |-> 404, body |-> [detail |-> "Repository not found"]]
    ELSE [status |-> 200,
          body |-> [id |-> repository_id, name |-> "Repository",
                    source |-> "github", file_count |-> 0,
                    language_stats |-> << >>, status |-> "ready"]]

----------------------------------------------------------------------------
(* POST /explain of app/api/endpoints/gemini.py *)

ENTIRE_CODEBASE == "ENTIRE_CODEBASE"

\* request.repository_id is None
NoId == "<None>"

\* bool(request.repository_id)
TruthyId(repository_id) == repository_id \notin {NoId, ""}

key_file_patterns ==
    << <<"m", "a", "i", "n">>,
       <<"c", "o", "n", "f", "i", "g">>,
       <<"a", "u", "t", "h">>,
       <<"s", "e", "c", "u", "r", "i", "t", "y">>,
       <<"d", "a", "t", "a", "b", "a", "s", "e">>,
       <<"m", "o", "d", "e", "l", "s">>,
       <<"a", "p", "p">>,
       <<"i", "n", "d", "e", "x">>,
       <<"s", "e", "r", "v", "e", "r">>,
       <<"a", "p", "i">>,
       <<"r", "o", "u", "t", "e", "s">>,
       <<"e", "n", "v", "i", "r", "o", "n", "m", "e", "n", "t">>,
       <<".", "e", "n", "v">>,
       <<"d", "o", "c", "k", "e", "r">>,
       <<"p", "a", "c", "k", "a", "g", "e", ".", "j", "s", "o", "n">>,
       <<"r", "e", "q", "u", "i", "r", "e", "m", "e", "n", "t", "s", ".",
         "t", "x", "t">>,
       <<"s", "e", "t", "t", "i", "n", "g", "s">>,
       <<"m", "i", "d", "d", "l", "e", "w", "a", "r", "e">> >>

\* the slices of selected_files = key_files[:5] + other_files[:5]
KeyLimit == 5

OtherLimit == 5

\* the slice of content.get("content", "")[:1500]
ContentLimit == 1500

\* the characters of codebase_prompt apart from the file blocks
TemplateChars == 1988

\* the characters "File: ", "\n```\n" and "\n```\n" add to one file block
BlockChars == 16

\* the characters of the sentence appended for request.question, the
\* question apart
QuestionChars == 91

\* the type of the value a service method returns
ReturnType(method) ==
    IF method = "get_repository_files" THEN "list"    \* files_info = []
    ELSE IF method = "get_file_content" THEN "str"    \* content = f.read()
    ELSE "dict"

\* hasattr(value, "get") for a value of the type
HasGet(type) == type = "dict"

\* the parameters of GeminiService.answer_question
answer_question_parameters == {"question", "code_context", "repository_info"}

\* the keyword arguments both calls of explain_code pass
explain_keywords ==
    {"question", "code_context", "repository_info", "custom_prompt"}

\* any(pattern in f['path'].lower() for pattern in key_file_patterns)
IsKey(f) ==
    \E i \in 1..Len(key_file_patterns) :
        Contains(key_file_patterns[i], lower(f.path))

\* key_files = [f for f in all_files if any(...)]
key_files(all_files) == SelectSeq(all_files, IsKey)

\* other_files = [f for f in all_files if f not in key_files]
other_files(all_files) ==
    LET keys == key_files(all_files)
        NotIn(f) == \A i \in 1..Len(keys) : keys[i] # f
    IN  SelectSeq(all_files, NotIn)

\* selected_files = key_files[:5] + other_files[:5]
selected_files(all_files) ==
    Prefix(key_files(all_files), KeyLimit)
    \o Prefix(other_files(all_files), OtherLimit)

\* the for loop over selected_files: a file is appended when
\* get_file_content returns and content.get(...) can be called on what it
\* returned; every exception is logged and the file skipped
RECURSIVE file_contents(_, _, _)
file_contents(d, repository_id, selected) ==
    IF selected = << >> THEN << >>
    ELSE LET file == Head(selected)
             Append1(r) ==
                 IF r.exc = "" /\ HasGet(ReturnType("get_file_content"))
                 THEN << [path    |-> file.path,
                          content |-> [r.ret EXCEPT
                                         !.chars = Min(@, ContentLimit)]] >>
                 ELSE << >>
         IN  Append1(get_file_content(d, repository_id, file.path))
             \o file_contents(d, repository_id, Tail(selected))

\* len(codebase_prompt), the appended question included
RECURSIVE BlocksChars(_)
BlocksChars(fcs) ==
    IF fcs = << >> THEN 0
    ELSE BlockChars + Len(Head(fcs).path) + Head(fcs).content.chars
         + (IF Len(fcs) > 1 THEN 1 ELSE 0) + BlocksChars(Tail(fcs))

codebase_prompt_chars(fcs, question) ==
    TemplateChars + BlocksChars(fcs)
    + (IF Truthy(question) THEN QuestionChars + Len(question) ELSE 0)

\* the body of an explain response; the fields past error record what the
\* handler did before it answered
ExplainBody(error, reads, calls, made, sel, fcs, prompt) ==
    [error |-> error, repo_reads |-> reads, model_calls |-> calls,
     selection_made |-> made, selected |-> sel, file_contents |-> fcs,
     prompt_chars |-> prompt]

\* await gemini_service.answer_question(..., custom_prompt=...): "" when
\* the model answers, else the exception raised
answer_question_call(keywords, gemini_ok) ==
    IF ~(keywords \subseteq answer_question_parameters) THEN "TypeError"
    ELSE IF gemini_ok THEN ""
    ELSE "GoogleAPIError"

\* the inner try block of the whole-repository branch; its
\* "except Exception" answers every exception with status 500
explain_codebase(d, request, gemini_ok) ==
    LET id   == request.repository_id
        call == answer_question_call(explain_keywords, gemini_ok)
        Paths(sel) == [i \in 1..Len(sel) |-> sel[i].path]
        \* from response = await gemini_service.answer_question(...) on
        Answered(files, sel, fcs) ==
            [status |-> IF call # "" THEN 500 ELSE 200,
             body |-> ExplainBody(call, 1 + Len(sel),
                          IF call = "TypeError" THEN 0 ELSE 1, TRUE,
                          Paths(sel), fcs,
                          codebase_prompt_chars(fcs, request.question)),
             disk |-> files.disk]
        \* from file_contents = [] on
        Selected(files, sel) ==
            Answered(files, sel, file_contents(d, id, sel))
        \* from all_files = files.get("files", []) on
        Listed(files) ==
            IF files.exc # ""
            THEN [status |-> 500,
                  body |-> ExplainBody(files.exc, 1, 0, FALSE, << >>, << >>, 0),
                  disk |-> files.disk]
            ELSE IF ~HasGet(ReturnType("get_repository_files"))
            THEN [status |-> 500,
                  body |-> ExplainBody("AttributeError", 1, 0, FALSE, << >>,
                                       << >>, 0),
                  disk |-> files.disk]
            ELSE Selected(files, selected_files(files.ret))
    IN  Listed(get_repository_files(d, id, None))

\* the single-file branch: the exception of the model call leaves the
\* handler, whose outer try has no except clause
explain_file(d, request, gemini_ok) ==
    LET call == answer_question_call(explain_keywords, gemini_ok)
    IN  IF call # ""
        THEN [status |-> 500,
              body |-> ExplainBody(call, 0,
                                   IF call = "TypeError" THEN 0 ELSE 1,
                                   FALSE, << >>, << >>, 0),
              disk |-> d]
        ELSE [status |-> 200,
              body |-> ExplainBody("", 0, 1, FALSE, << >>, << >>, 0),
              disk |-> d]

\* a plausible slip: the repository_id check raised inside the inner try
explain_code_CheckInsideTry(d, request, gemini_ok) ==
    IF request.code # ENTIRE_CODEBASE
    THEN explain_file(d, request, gemini_ok)
    ELSE IF ~TruthyId(request.repository_id)
    THEN [status |-> 500,
          body |-> ExplainBody("HTTPException", 0, 0, FALSE, << >>, << >>, 0),
          disk |-> d]
    ELSE explain_codebase(d, request, gemini_ok)

\* explain_code(request)
explain_code(d, request, gemini_ok) ==
    IF request.code # ENTIRE_CODEBASE
    THEN explain_file(d, request, gemini_ok)
    ELSE IF ~TruthyId(request.repository_id)
    THEN [status |-> 400,
          body |-> ExplainBody("Repository ID is required for codebase analysis",
                               0, 0, FALSE, << >>, << >>, 0),
          disk |-> d]
    ELSE explain_codebase(d, request, gemini_ok)

----------------------------------------------------------------------------
(* app/api/endpoints/questions.py.  An audio file and a Question are named *)
(* by the uuid4 drawn for them: the n-th question and its audio file are   *)
(* both written n.                                                         *)

QuestionIds == 1..MaxQuestions

\* Question.response is None
NoQuestionResponse ==
    [text_response |-> None, audio_url |-> 0,
     code_snippets |-> << >>, references |-> << >>]

\* response.text of the text-generation model: kind "dict" is the JSON of
\* an object (text: its "text_response", None when the key is missing;
\* code_snippets, references: the JSON type of each element of these two
\* lists), kind "list" the JSON of a value that is no object, kind "text"
\* a text that is no JSON (text: the whole text)
GeminiReplies ==
    {[kind |-> "dict", text |-> <<"o", "k">>,
      code_snippets |-> <<"dict">>, references |-> << >>],
     [kind |-> "dict", text |-> <<"o", "k">>,
      code_snippets |-> <<"str">>, references |-> << >>],
     [kind |-> "list", text |-> None,
      code_snippets |-> << >>, references |-> << >>],
     [kind |-> "text", text |-> <<"h", "m">>,
      code_snippets |-> << >>, references |-> << >>]}

NoReply ==
    [kind |-> "", text |-> None, code_snippets |-> << >>, references |-> << >>]

\* the validation of a List[Dict[str, Any]] field of QuestionResponse
ValidDicts(list) == \A i \in 1..Len(list) : list[i] = "dict"

\* gemini_service.answer_question(question, code_context, repository_info)
answer_question(question, code_context, gemini_ok, reply) ==
    IF gemini_ok
    THEN [exc |-> "", ret |-> reply]
    ELSE [exc |-> "Exception", ret |-> NoReply]

\* voice_service.generate_audio(text): tts.save writes the file, and a
\* failure of tts.save or of AudioSegment.from_file may leave it (saved)
generate_audio(a, filename, voice_ok, saved) ==
    IF voice_ok
    THEN [exc |-> "", ret |-> [audio_url |-> filename],
          audio |-> a \cup {filename}]
    ELSE [exc |-> "Exception", ret |-> [audio_url |-> 0],
          audio |-> IF saved THEN a \cup {filename} ELSE a]

\* response_data.get("text_response", "No response generated")
text_response(response_data) ==
    IF response_data.text = None
    THEN <<"N", "o", " ", "r", "e", "s", "p", "o", "n", "s", "e", " ",
           "g", "e", "n", "e", "r", "a", "t", "e", "d">>
    ELSE response_data.text

\* _process_question(question): the Question.response it leaves and the
\* audio directory.  Its outer "except Exception" swallows every exception.
process_question(d, a, question, filename, gemini_ok, reply, voice_ok, saved) ==
    LET Context(r) == IF r.exc = "" THEN r.ret ELSE NoContent
        code_context ==
            IF Truthy(question.context)
            THEN Context(get_file_content(d, question.repository_id,
                                          question.context))
            ELSE NoContent
        \* QuestionResponse(...) after generate_audio: a ValidationError
        \* leaves the response None and the audio file written
        Spoken(text, code_snippets, references, v) ==
            IF v.exc = "" /\ ValidDicts(code_snippets) /\ ValidDicts(references)
            THEN [response |-> [text_response |-> text,
                                audio_url |-> v.ret.audio_url,
                                code_snippets |-> code_snippets,
                                references |-> references],
                  audio |-> v.audio]
            ELSE [response |-> NoQuestionResponse, audio |-> v.audio]
        Answered(raw) ==
            IF raw.exc # ""
            THEN [response |-> NoQuestionResponse, audio |-> a]
            ELSE IF raw.ret.kind = "text"       \* json.JSONDecodeError
            THEN Spoken(raw.ret.text, << >>, << >>,
                        generate_audio(a, filename, voice_ok, saved))
            ELSE IF raw.ret.kind = "dict"
            THEN Spoken(text_response(raw.ret), raw.ret.code_snippets,
                        raw.ret.references,
                        generate_audio(a, filename, voice_ok, saved))
            \* response_data.get raises AttributeError
            ELSE [response |-> NoQuestionResponse, audio |-> a]
    IN  Answered(answer_question(question.question, code_context, gemini_ok,
                                 reply))

\* POST /: create_question.  create_repository_directory makes the
\* directory, so the test of repo_dir.exists() that follows it passes.
create_question(d, a, question_create, id, gemini_ok, reply, voice_ok, saved) ==
    LET Returned(made, p) ==
            [status |-> 200,
             body |-> [id |-> id,
                       repository_id |-> question_create.repository_id,
                       question |-> question_create.question,
                       context |-> question_create.context,
                       response |-> p.response],
             disk |-> made, audio |-> p.audio]
        Checked(made) ==
            IF ~Exists(made, question_create.repository_id)
            THEN [status |-> 500,
                  body |-> [detail |-> "404: Repository not found"],
                  disk |-> made, audio |-> a]
            ELSE Returned(made,
                          process_question(made, a, question_create, id,
                                           gemini_ok, reply, voice_ok,
                                           saved))
    IN  Checked(create_repository_directory(d,
                                            question_create.repository_id))

\* GET /{question_id}: get_question
api_get_question(question_id) ==
    [status |-> 404, body |-> [detail |-> "Question not found"]]

\* GET /repository/{repository_id}: get_repository_questions
api_get_repository_questions(repository_id) ==
    [status |-> 200, body |-> [list |-> << >>]]

----------------------------------------------------------------------------
(* The requests a client may send *)

Filters == {None, <<"p", "y">>}

\* parts joined by the separator s
RECURSIVE JoinWith(_, _)
JoinWith(parts, s) ==
    IF parts = << >> THEN << >>
    ELSE IF Len(parts) = 1 THEN Head(parts)
    ELSE Head(parts) \o <<s>> \o JoinWith(Tail(parts), s)

\* a path that names main.py from the directory of another identifier
EscapePath ==
    ParentDir \o <<"/">> \o IdChars("r2") \o <<"/">> \o FileUniverse[2].name

\* the file paths a client may ask for: every path a listing can show on
\* either platform, a directory, a path of no file, a path through ".."
\* and an absolute path
FilePaths ==
    {JoinWith(FileUniverse[k].dir \o <<FileUniverse[k].name>>, s) :
         k \in FileIds, s \in {"/", "\\"}}
    \cup {SrcDir, <<"m", "i", "s", "s", "i", "n", "g">>, EscapePath, HostPath}

Sources == {"github", "git", "zip", "local"}

\* the bodies of POST /api/questions: QuestionCreate
QuestionCreates ==
    [repository_id : RepoIds,
     question : {<<"w", "h", "y", "?">>},
     context : {None, <<"m", "a", "i", "n", ".", "p", "y">>}]

Questions == {None, <<"w", "h", "y", "?">>}

ExplainRequests ==
    [code : {ENTIRE_CODEBASE, "print(1)"},
     question : Questions,
     repository_id : {NoId, ""} \cup RepoIds]

----------------------------------------------------------------------------
(* The state machine *)

\* status, file_count, language_stats: the fields of the Repository object;
\* task: the background task scheduled for it
NoRepository ==
    [status |-> "", task |-> "", file_count |-> 0, language_stats |-> << >>]

\* no handler has an answer to deliver
NoResponse == [op |-> "", id |-> "", arg |-> << >>, status |-> 0,
               body |-> NoBody]

\* the event loop is free to run the next handler
Idle == resp = NoResponse

\* os.getenv("BLAND_API_KEY", "") and os.getenv("BLAND_API_URL", "") with
\* neither variable in the environment
NoSettings == [BLAND_API_KEY |-> << >>, BLAND_API_URL |-> << >>]

Init ==
    /\ platform \in Platforms
    /\ disk = [id \in RepoIds |-> NoDir]
    /\ repos = [id \in RepoIds |-> NoRepository]
    /\ temp = {}
    /\ audio = {}
    /\ deleting = {}
    /\ settings = NoSettings
    /\ bland = << >>
    /\ resp = NoResponse

\* the answer leaves the server, which keeps nothing of the request
Respond ==
    /\ ~Idle
    /\ resp' = NoResponse
    /\ bland' = << >>
    /\ UNCHANGED <<platform, settings, disk, repos, temp, audio, deleting>>

\* POST /: create_repository
CreateRepository(id, source, source_url, file) ==
    LET error == create_repository_error(source, source_url, file)
    IN  /\ Idle
        /\ repos[id] = NoRepository        \* repository_id = str(uuid.uuid4())
        /\ IF error = ""
           THEN /\ repos' = [repos EXCEPT ![id] =
                    [status |-> "processing",
                     task |-> IF source = "zip"
                              THEN "_process_zip_repository"
                              ELSE "_process_git_repository",
                     file_count |-> 0,
                     language_stats |-> << >>]]
                \* shutil.copyfileobj(file.file, buffer)
                /\ temp' = IF source = "zip" THEN temp \cup {id} ELSE temp
                /\ resp' = [op |-> "create_repository", id |-> id,
                            arg |-> <<source>>, status |-> 200,
                            body |-> [status |-> "processing"]]
           ELSE /\ repos' = repos
                /\ temp' = temp
                /\ resp' = [op |-> "create_repository", id |-> "",
                            arg |-> <<source>>, status |-> 500,
                            body |-> [detail |-> error]]
        /\ UNCHANGED <<platform, settings, disk, audio, deleting, bland>>

\* the background task _process_zip_repository
ProcessZipRepository(id, archive, extract_ok, extracted) ==
    /\ Idle
    /\ repos[id].status = "processing"
    /\ repos[id].task = "_process_zip_repository"
    /\ \E r \in {upload_zip_repository(disk, temp, id, archive, extract_ok,
                                       extracted)} :
          /\ disk' = r.disk
          /\ temp' = r.temp
          /\ repos' = [repos EXCEPT ![id] =
                          IF r.exc = ""
                          THEN [status |-> "ready", task |-> "",
                                file_count |-> r.ret.file_count,
                                language_stats |-> r.ret.language_stats]
                          ELSE [@ EXCEPT !.status = "error", !.task = ""]]
          /\ resp' = [op |-> "_process_zip_repository", id |-> id,
                      arg |-> << >>, status |-> 0,
                      body |-> [exc |-> r.exc, repo_info |-> r.ret]]
    /\ UNCHANGED <<platform, settings, audio, deleting, bland>>

\* a plausible slip: the task without its except clause, the status left
\* as it was when the clone raises
ProcessGitRepository_StaysProcessing(id, remote, clone_ok, cloned) ==
    /\ Idle
    /\ repos[id].status = "processing"
    /\ repos[id].task = "_process_git_repository"
    /\ \E r \in {clone_git_repository(disk, id, remote, clone_ok, cloned)} :
          /\ disk' = r.disk
          /\ repos' = [repos EXCEPT ![id] =
                          IF r.exc = ""
                          THEN [status |-> "ready", task |-> "",
                                file_count |-> r.ret.file_count,
                                language_stats |-> r.ret.language_stats]
                          ELSE [@ EXCEPT !.task = ""]]
          /\ resp' = [op |-> "_process_git_repository", id |-> id,
                      arg |-> << >>, status |-> 0,
                      body |-> [exc |-> r.exc, repo_info |-> r.ret]]
    /\ UNCHANGED <<platform, settings, temp, audio, deleting, bland>>

\* the background task _process_git_repository
ProcessGitRepository(id, remote, clone_ok, cloned) ==
    /\ Idle
    /\ repos[id].status = "processing"
    /\ repos[id].task = "_process_git_repository"
    /\ \E r \in {clone_git_repository(disk, id, remote, clone_ok, cloned)} :
          /\ disk' = r.disk
          /\ repos' = [repos EXCEPT ![id] =
                          IF r.exc = ""
                          THEN [status |-> "ready", task |-> "",
                                file_count |-> r.ret.file_count,
                                language_stats |-> r.ret.language_stats]
                          ELSE [@ EXCEPT !.status = "error", !.task = ""]]
          /\ resp' = [op |-> "_process_git_repository", id |-> id,
                      arg |-> << >>, status |-> 0,
                      body |-> [exc |-> r.exc, repo_info |-> r.ret]]
    /\ UNCHANGED <<platform, settings, temp, audio, deleting, bland>>

\* GET /{repository_id}/files
GetRepositoryFiles(id, filter) ==
    /\ Idle
    /\ \E r \in {api_get_repository_files(disk, id, filter)} :
          /\ disk' = r.disk
          /\ resp' = [op |-> "get_repository_files", id |-> id,
                      arg |-> filter, status |-> r.status, body |-> r.body]
    /\ UNCHANGED <<platform, settings, repos, temp, audio, deleting, bland>>

\* GET /{repository_id}/files/{file_path:path}
GetFileContent(id, path) ==
    /\ Idle
    /\ \E r \in {api_get_file_content(disk, id, path)} :
          /\ disk' = r.disk
          /\ resp' = [op |-> "get_file_content", id |-> id,
                      arg |-> path, status |-> r.status, body |-> r.body]
    /\ UNCHANGED <<platform, settings, repos, temp, audio, deleting, bland>>

\* DELETE /{repository_id}
DeleteRepository(id, rmtree_ok, rest) ==
    /\ Idle
    /\ \E r \in {api_delete_repository(disk, id, rmtree_ok, rest)} :
          /\ disk' = r.disk
          /\ resp' = [op |-> "delete_repository", id |-> id,
                      arg |-> << >>, status |-> r.status, body |-> r.body]
    /\ UNCHANGED <<platform, settings, repos, temp, audio, deleting, bland>>

\* POST /explain
ExplainCode(request, gemini_ok) ==
    /\ Idle
    /\ \E r \in {explain_code(disk, request, gemini_ok)} :
          /\ disk' = r.disk
          /\ resp' = [op |-> "explain_code", id |-> request.repository_id,
                      arg |-> request, status |-> r.status, body |-> r.body]
    /\ UNCHANGED <<platform, settings, repos, temp, audio, deleting, bland>>

\* GET /
ListRepositories ==
    /\ Idle
    /\ resp' = [op |-> "list_repositories", id |-> "", arg |-> << >>,
                status |-> api_list_repositories.status,
                body |-> api_list_repositories.body]
    /\ UNCHANGED <<platform, settings, disk, repos, temp, audio, deleting, bland>>

\* a plausible slip: the repository looked up among the Repository objects
\* in memory instead of on the disk
GetRepository_FromMemory(id) ==
    /\ Idle
    /\ \E r \in {api_get_repository(
                     [i \in RepoIds |->
                         [exists |-> repos[i].status # "", files |-> {}]],
                     id)} :
          resp' = [op |-> "get_repository", id |-> id, arg |-> << >>,
                   status |-> r.status, body |-> r.body]
    /\ UNCHANGED <<platform, settings, disk, repos, temp, audio, deleting, bland>>

\* GET /{repository_id}
GetRepository(id) ==
    /\ Idle
    /\ \E r \in {api_get_repository(disk, id)} :
          resp' = [op |-> "get_repository", id |-> id, arg |-> << >>,
                   status |-> r.status, body |-> r.body]
    /\ UNCHANGED <<platform, settings, disk, repos, temp, audio, deleting, bland>>

\* POST /api/questions/; id: the uuid4 drawn for the Question and for its
\* audio file
CreateQuestion(question_create, id, gemini_ok, reply, voice_ok, saved) ==
    /\ Idle
    /\ id \notin audio
    /\ \E r \in {create_question(disk, audio, question_create, id, gemini_ok,
                                 reply, voice_ok, saved)} :
          /\ disk' = r.disk
          /\ audio' = r.audio
          /\ resp' = [op |-> "create_question",
                      id |-> question_create.repository_id,
                      arg |-> [gemini_ok |-> gemini_ok, reply |-> reply.kind,
                               voice_ok |-> voice_ok, raw |-> reply],
                      status |-> r.status, body |-> r.body]
    /\ UNCHANGED <<platform, settings, repos, temp, deleting, bland>>

\* a plausible slip: the question looked up by the audio file kept for it
GetQuestion_Found(question_id) ==
    /\ Idle
    /\ resp' = [op |-> "get_question", id |-> "", arg |-> <<question_id>>,
                status |-> IF question_id \in audio THEN 200 ELSE 404,
                body |-> api_get_question(question_id).body]
    /\ UNCHANGED <<platform, settings, disk, repos, temp, audio, deleting, bland>>

\* GET /api/questions/{question_id}
GetQuestion(question_id) ==
    /\ Idle
    /\ resp' = [op |-> "get_question", id |-> "", arg |-> <<question_id>>,
                status |-> api_get_question(question_id).status,
                body |-> api_get_question(question_id).body]
    /\ UNCHANGED <<platform, settings, disk, repos, temp, audio, deleting, bland>>

\* GET /api/questions/repository/{repository_id}
GetRepositoryQuestions(id) ==
    /\ Idle
    /\ resp' = [op |-> "get_repository_questions", id |-> id, arg |-> << >>,
                status |-> api_get_repository_questions(id).status,
                body |-> api_get_repository_questions(id).body]
    /\ UNCHANGED <<platform, settings, disk, repos, temp, audio, deleting, bland>>

\* the files an interrupted extractall, clone or rmtree has written or
\* left: none, or the files of tree t before one of them in the order of
\* FileIds
Partial(t) == {{k \in t : k < n} : n \in t \cup {0}}

\* POST / and the background tasks it schedules
Acquire ==
    \/ \E id \in RepoIds, source \in Sources,
          source_url \in {None, <<"u", "r", "l">>}, file \in BOOLEAN :
          CreateRepository(id, source, source_url, file)
    \/ \E id \in RepoIds, archive \in ZipTrees :
          \/ ProcessZipRepository(id, archive, TRUE, archive)
          \/ \E extracted \in Partial(archive) :
                ProcessZipRepository(id, archive, FALSE, extracted)
    \/ \E id \in RepoIds, remote \in Trees :
          \/ ProcessGitRepository(id, remote, TRUE, remote)
          \/ \E cloned \in Partial(remote) :
                ProcessGitRepository(id, remote, FALSE, cloned)

\* the requests of app/api/endpoints/repositories.py on a repository
Browse ==
    \/ \E id \in RepoIds, filter \in Filters : GetRepositoryFiles(id, filter)
    \/ \E id \in RepoIds, path \in FilePaths : GetFileContent(id, path)
    \/ \E id \in RepoIds :
          \/ DeleteRepository(id, TRUE, {})
          \/ \E rest \in Partial(disk[id].files) :
                DeleteRepository(id, FALSE, rest)
    \/ ListRepositories
    \/ \E id \in RepoIds : GetRepository(id)

\* the requests of app/api/endpoints/gemini.py
Explain ==
    \E request \in ExplainRequests, gemini_ok \in BOOLEAN :
        ExplainCode(request, gemini_ok)

\* the requests of app/api/endpoints/questions.py.  The speech call is made
\* only for a reply that is an object or no JSON.
Ask ==
    \/ \E question_create \in QuestionCreates, id \in QuestionIds :
          \/ CreateQuestion(question_create, id, FALSE, NoReply, TRUE, FALSE)
          \/ \E reply \in GeminiReplies :
                \/ CreateQuestion(question_create, id, TRUE, reply, TRUE,
                                  FALSE)
                \/ /\ reply.kind # "list"
                   /\ \E saved \in BOOLEAN :
                         CreateQuestion(question_create, id, TRUE, reply,
                                        FALSE, saved)
    \/ \E question_id \in QuestionIds : GetQuestion(question_id)
    \/ \E id \in RepoIds : GetRepositoryQuestions(id)

Next == Acquire \/ Browse \/ Explain \/ Ask \/ Respond

Spec == Init /\ [][Next]_vars

\* the background task POST / has scheduled for the repository
BackgroundTask(id) ==
    \/ \E archive \in ZipTrees :
          \/ ProcessZipRepository(id, archive, TRUE, archive)
          \/ \E extracted \in Partial(archive) :
                ProcessZipRepository(id, archive, FALSE, extracted)
    \/ \E remote \in Trees :
          \/ ProcessGitRepository(id, remote, TRUE, remote)
          \/ \E cloned \in Partial(remote) :
                ProcessGitRepository(id, remote, FALSE, cloned)

\* the event loop delivers every answer and runs every task it was given
SpecFair ==
    /\ Spec
    /\ WF_vars(Respond)
    /\ \A id \in RepoIds : SF_vars(BackgroundTask(id))

----------------------------------------------------------------------------
(* app/api/endpoints/audio.py and the deletion of app/services/            *)
(* voice_service.py: the audio directory under requests that make, serve   *)
(* and delete its files                                                     *)

\* the file names drawn for the audio directory
MaxAudio == 2

\* f"{uuid.uuid4()}.{format.value}": the names of audio files, and the names
\* a request puts in /files/{filename}
AudioNames == 1..MaxAudio

\* get_audio_file_path(filename).exists()
AudioExists(a, filename) == filename \in a

\* a plausible slip: the removal empties the audio directory
delete_audio_ClearsDirectory(a, filename, remove_ok) ==
    IF AudioExists(a, filename)
    THEN (IF remove_ok
          THEN [ret |-> TRUE, audio |-> {}]
          ELSE [ret |-> FALSE, audio |-> a])
    ELSE [ret |-> FALSE, audio |-> a]

\* voice_service.delete_audio(filename): os.remove takes the named file
\* away, or raises (the file is open elsewhere on Windows, the directory
\* refuses the removal) and the except clause answers False
delete_audio(a, filename, remove_ok) ==
    IF AudioExists(a, filename)
    THEN (IF remove_ok
          THEN [ret |-> TRUE, audio |-> a \ {filename}]
          ELSE [ret |-> FALSE, audio |-> a])
    ELSE [ret |-> FALSE, audio |-> a]

\* POST /generate
api_generate_audio(a, filename, voice_ok, saved) ==
    LET Answer(v) ==
            IF v.exc = ""
            THEN [status |-> 200, body |-> v.ret, audio |-> v.audio]
            ELSE [status |-> 500, body |-> NoBody, audio |-> v.audio]
    IN  Answer(generate_audio(a, filename, voice_ok, saved))

\* GET /files/{filename}
api_get_audio_file(a, filename) ==
    IF ~AudioExists(a, filename)
    THEN [status |-> 404, body |-> [detail |-> "Audio file not found"]]
    ELSE [status |-> 200, body |-> [detail |-> "", filename |-> filename]]

\* DELETE /files/{filename}: add_task and the answer, the file not looked at
api_delete_audio_file(tasks, filename) ==
    [status |-> 200, body |-> [detail |-> "Audio file deletion scheduled"],
     tasks |-> tasks \cup {filename}]

GenerateAudio(filename, voice_ok, saved) ==
    /\ Idle
    /\ filename \notin audio \cup deleting
    /\ \E r \in {api_generate_audio(audio, filename, voice_ok, saved)} :
          /\ audio' = r.audio
          /\ resp' = [op |-> "generate_audio", id |-> "",
                      arg |-> <<filename>>, status |-> r.status,
                      body |-> r.body]
    /\ UNCHANGED <<platform, settings, disk, repos, temp, deleting, bland>>

GetAudioFile(filename) ==
    /\ Idle
    /\ \E r \in {api_get_audio_file(audio, filename)} :
          resp' = [op |-> "get_audio_file", id |-> "", arg |-> <<filename>>,
                   status |-> r.status, body |-> r.body]
    /\ UNCHANGED <<platform, settings, disk, repos, temp, audio, deleting, bland>>

\* one task waits per name
DeleteAudioFile(filename) ==
    /\ Idle
    /\ filename \notin deleting
    /\ \E r \in {api_delete_audio_file(deleting, filename)} :
          /\ deleting' = r.tasks
          /\ resp' = [op |-> "delete_audio_file", id |-> "",
                      arg |-> <<filename>>, status |-> r.status,
                      body |-> r.body]
    /\ UNCHANGED <<platform, settings, disk, repos, temp, audio, bland>>

\* the background task of DELETE /files/{filename}
DeleteAudio(filename, remove_ok) ==
    /\ Idle
    /\ filename \in deleting
    /\ \E r \in {delete_audio(audio, filename, remove_ok)} :
          /\ audio' = r.audio
          /\ resp' = [op |-> "delete_audio", id |-> "", arg |-> <<filename>>,
                      status |-> 0, body |-> [detail |-> "", ret |-> r.ret]]
    /\ deleting' = deleting \ {filename}
    /\ UNCHANGED <<platform, settings, disk, repos, temp, bland>>

\* the requests of app/api/endpoints/audio.py and their background tasks
Audio ==
    \/ \E filename \in AudioNames, voice_ok \in BOOLEAN, saved \in BOOLEAN :
          GenerateAudio(filename, voice_ok, saved)
    \/ \E filename \in AudioNames : GetAudioFile(filename)
    \/ \E filename \in AudioNames : DeleteAudioFile(filename)
    \/ \E filename \in AudioNames, remove_ok \in BOOLEAN :
          DeleteAudio(filename, remove_ok)

NextAudio == Audio \/ Respond

\* the event loop delivers every answer and runs every task it was given
SpecAudio ==
    /\ Init
    /\ [][NextAudio]_vars
    /\ WF_vars(Respond)
    /\ \A filename \in AudioNames :
          SF_vars(\E remove_ok \in BOOLEAN : DeleteAudio(filename, remove_ok))

----------------------------------------------------------------------------
(* app/api/endpoints/phone_calls.py and app/services/bland_call_service.py: *)
(* the requests a handler sends to the Bland AI API                         *)

\* knowledge_base_text: None, or a str of so many characters
NoText == [given |-> FALSE, chars |-> 0]

Text(n) == [given |-> TRUE, chars |-> n]

TruthyText(t) == t.given /\ t.chars > 0

\* the 5000 of knowledge_base_text[:5000]
PreviewLimit == 5000

\* text[:limit]
Slice(t, limit) == Text(Min(t.chars, limit))

\* the task of a request without call_instructions that falls back on the
\* text
DefaultTask ==
    <<"You are a senior developer helping explain code to the user.">>

\* a task: the instructions and, after them, the preview of the text
Task(instructions, preview) ==
    [instructions |-> instructions, preview |-> preview]

TruthyTask(task) == Truthy(task.instructions) \/ task.preview.given

\* phone_number.replace(" ", "")
WithoutSpaces(s) == SelectSeq(s, LAMBDA c : c # " ")

\* the identifier the Bland AI API gives a knowledge base it has made
NewVectorId == <<"k", "b", "-", "n", "e", "w">>

\* bland_service.create_knowledge_base(name, description, text): one POST to
\* /knowledgebases, the vector_id of the reply or the exception
create_knowledge_base(name, description, text, create_ok) ==
    [exc  |-> IF create_ok THEN "" ELSE "Exception",
     ret  |-> IF create_ok THEN NewVectorId ELSE None,
     sent |-> << [api |-> "create_knowledge_base", name |-> name,
                  description |-> description, text |-> text,
                  ok |-> create_ok] >>]

\* a plausible slip: the tools are sent whether or not they are set
make_phone_call_AlwaysTools(phone_number, task, tools, call_ok) ==
    [exc  |-> IF call_ok THEN "" ELSE "Exception",
     ret  |-> [call_id |-> IF call_ok THEN "c1" ELSE "",
               status |-> IF call_ok THEN "success" ELSE ""],
     sent |-> << [api |-> "make_phone_call",
                  phone_number |-> WithoutSpaces(phone_number),
                  task |-> IF TruthyTask(task) THEN task
                           ELSE Task(None, NoText),
                  tools |-> tools,
                  ok |-> call_ok] >>]

\* bland_service.make_phone_call(phone_number, task, ..., tools): one POST to
\* /calls whose payload holds the task and the tools that are set
make_phone_call(phone_number, task, tools, call_ok) ==
    [exc  |-> IF call_ok THEN "" ELSE "Exception",
     ret  |-> [call_id |-> IF call_ok THEN "c1" ELSE "",
               status |-> IF call_ok THEN "success" ELSE ""],
     sent |-> << [api |-> "make_phone_call",
                  phone_number |-> WithoutSpaces(phone_number),
                  task |-> IF TruthyTask(task) THEN task
                           ELSE Task(None, NoText),
                  tools |-> IF Truthy(tools) THEN tools ELSE << >>,
                  ok |-> call_ok] >>]

\* bland_service.get_call_status(call_id): one GET of /calls/{call_id}
get_call_status(call_id, status_ok) ==
    [exc  |-> IF status_ok THEN "" ELSE "Exception",
     ret  |-> [call_id |-> IF status_ok THEN call_id ELSE "",
               status |-> IF status_ok THEN "completed" ELSE ""],
     sent |-> << [api |-> "get_call_status", call_id |-> call_id,
                  ok |-> status_ok] >>]

\* check_bland_config()
check_bland_config(s) ==
    IF s.BLAND_API_KEY = << >>
    THEN [status |-> "error",
          message |-> "BLAND_API_KEY not set in environment variables"]
    ELSE IF s.BLAND_API_URL = << >>
    THEN [status |-> "error",
          message |-> "BLAND_API_URL not set in environment variables"]
    ELSE [status |-> "ok",
          config |-> [bland_api_url |-> s.BLAND_API_URL,
                      bland_api_key_set |-> TRUE,
                      api_key_preview |->
                          IF Len(s.BLAND_API_KEY) > 5
                          THEN SubSeq(s.BLAND_API_KEY, 1, 5)
                               \o <<".", ".", ".">>
                          ELSE None]]

\* a plausible slip: the sentinel is answered after the remote call
api_get_call_status_AlwaysRemote(s, call_id, status_ok) ==
    LET Answer(r) ==
            IF call_id = "config-status"
            THEN [status |-> 200, body |-> check_bland_config(s),
                  bland |-> r.sent]
            ELSE IF r.exc # ""
            THEN [status |-> 500, body |-> [detail |-> r.exc],
                  bland |-> r.sent]
            ELSE [status |-> 200, body |-> r.ret, bland |-> r.sent]
    IN  Answer(get_call_status(call_id, status_ok))

\* GET /{call_id}
api_get_call_status(s, call_id, status_ok) ==
    LET Answer(r) ==
            IF r.exc # ""
            THEN [status |-> 500, body |-> [detail |-> r.exc],
                  bland |-> r.sent]
            ELSE [status |-> 200, body |-> r.ret, bland |-> r.sent]
    IN  IF call_id = "config-status"
        THEN [status |-> 200, body |-> check_bland_config(s),
              bland |-> << >>]
        ELSE Answer(get_call_status(call_id, status_ok))

\* POST /: make_phone_call.  The except clause turns the two HTTPException
\* of status 400 into answers of status 500.
api_make_phone_call(request, create_ok, call_ok) ==
    LET creating ==
            /\ ~Truthy(request.knowledge_base_id)
            /\ TruthyText(request.knowledge_base_text)
        incomplete ==
            \/ ~Truthy(request.knowledge_base_name)
            \/ ~Truthy(request.knowledge_base_description)
        Placed(kb, knowledge_base_id, task, call) ==
            IF ~TruthyTask(task) /\ ~Truthy(knowledge_base_id)
            THEN [status |-> 500,
                  body |-> [detail |-> "Either call_instructions or a knowledge base (existing or new) is required"],
                  bland |-> kb.sent]
            ELSE IF call.exc # ""
            THEN [status |-> 500, body |-> [detail |-> call.exc],
                  bland |-> kb.sent \o call.sent]
            ELSE [status |-> 200,
                  body |-> [call_id |-> call.ret.call_id,
                            status |-> call.ret.status,
                            phone_number |-> request.phone_number,
                            knowledge_base_id |-> knowledge_base_id],
                  bland |-> kb.sent \o call.sent]
        Called(kb, knowledge_base_id, task) ==
            Placed(kb, knowledge_base_id, task,
                   make_phone_call(request.phone_number, task,
                                   IF Truthy(knowledge_base_id)
                                   THEN <<knowledge_base_id>> ELSE None,
                                   call_ok))
        Instructed(kb, knowledge_base_id) ==
            Called(kb, knowledge_base_id,
                   IF /\ ~Truthy(knowledge_base_id)
                      /\ TruthyText(request.knowledge_base_text)
                   THEN Task(IF Truthy(request.call_instructions)
                             THEN request.call_instructions
                             ELSE DefaultTask,
                             Slice(request.knowledge_base_text, PreviewLimit))
                   ELSE Task(request.call_instructions, NoText))
        Created(kb) ==
            Instructed(kb, IF kb.exc = "" THEN kb.ret ELSE None)
    IN  IF creating /\ incomplete
        THEN [status |-> 500,
              body |-> [detail |-> "When providing knowledge_base_text, both knowledge_base_name and knowledge_base_description are required"],
              bland |-> << >>]
        ELSE IF creating
        THEN Created(create_knowledge_base(request.knowledge_base_name,
                                           request.knowledge_base_description,
                                           request.knowledge_base_text,
                                           create_ok))
        ELSE Instructed([sent |-> << >>], request.knowledge_base_id)

\* the values of BLAND_API_KEY and BLAND_API_URL: unset, a key of at most
\* five characters and a longer one, a URL
BlandSettings ==
    [BLAND_API_KEY : {<< >>, <<"k", "e", "y">>,
                      <<"s", "e", "c", "r", "e", "t">>},
     BLAND_API_URL : {<< >>, <<"h", "t", "t", "p", "s", ":", "/", "/", "b">>}]

\* the call_id of GET /{call_id}
CallIds == {"config-status", "Config-Status", "c1"}

\* the lengths of knowledge_base_text: empty, short, the preview's limit and
\* past it
TextChars == {0, 3, PreviewLimit, PreviewLimit + 1}

\* the bodies of POST /
PhoneCallRequests ==
    [phone_number : {<<"+", "1", " ", "5">>},
     knowledge_base_name : {None, <<"n">>},
     knowledge_base_description : {None, <<"d">>},
     knowledge_base_text : {NoText} \cup {Text(n) : n \in TextChars},
     knowledge_base_id : {None, <<"k", "b", "0">>},
     call_instructions : {None, <<"t">>}]

\* no request leaves for a URL that is not set
Reachable(ok) == ok => settings.BLAND_API_URL # << >>

MakePhoneCall(request, create_ok, call_ok) ==
    /\ Idle
    /\ Reachable(create_ok) /\ Reachable(call_ok)
    /\ \E r \in {api_make_phone_call(request, create_ok, call_ok)} :
          /\ bland' = r.bland
          /\ resp' = [op |-> "make_phone_call", id |-> "",
                      arg |-> [request |-> request], status |-> r.status,
                      body |-> r.body]
    /\ UNCHANGED <<platform, settings, disk, repos, temp, audio, deleting>>

GetCallStatus(call_id, status_ok) ==
    /\ Idle
    /\ Reachable(status_ok)
    /\ \E r \in {api_get_call_status(settings, call_id, status_ok)} :
          /\ bland' = r.bland
          /\ resp' = [op |-> "get_call_status", id |-> "",
                      arg |-> [call_id |-> call_id], status |-> r.status,
                      body |-> r.body]
    /\ UNCHANGED <<platform, settings, disk, repos, temp, audio, deleting>>

\* the requests of app/api/endpoints/phone_calls.py
Calls ==
    \/ \E request \in PhoneCallRequests, create_ok \in BOOLEAN,
          call_ok \in BOOLEAN : MakePhoneCall(request, create_ok, call_ok)
    \/ \E call_id \in CallIds, status_ok \in BOOLEAN :
          GetCallStatus(call_id, status_ok)

\* the server started in an environment that sets the Bland AI variables or
\* leaves them out
InitCalls ==
    /\ platform \in Platforms
    /\ disk = [id \in RepoIds |-> NoDir]
    /\ repos = [id \in RepoIds |-> NoRepository]
    /\ temp = {}
    /\ audio = {}
    /\ deleting = {}
    /\ settings \in BlandSettings
    /\ bland = << >>
    /\ resp = NoResponse

NextCalls == Calls \/ Respond

SpecCalls == InitCalls /\ [][NextCalls]_vars

----------------------------------------------------------------------------
(* Claims about POST /explain on a whole repository *)

\* the last handler was explain_code in its whole-repository branch, for a
\* repository the Walker returns a file list for
ExplainedCodebase ==
    /\ resp.op = "explain_code"
    /\ resp.arg.code = ENTIRE_CODEBASE
    /\ resp.id \in RepoIds
    /\ Exists(disk, resp.id)

\* the paths of the Walker's list for the repository just explained
WalkerPaths ==
    LET files == get_repository_files(disk, resp.id, None).ret
    IN  [i \in 1..Len(files) |-> files[i].path]

\* a lower-cased path contains one of the fixed keywords
KeyPath(path) ==
    \E i \in 1..Len(key_file_patterns) :
        Contains(key_file_patterns[i], lower(path))

OtherPath(path) == ~KeyPath(path)

\* the number of entries of s that satisfy Test
Count(s, Test(_)) == Cardinality({i \in 1..Len(s) : Test(s[i])})

\* the file of the explained repository that a listed path names
FileOfPath(path) ==
    CHOOSE k \in disk[resp.id].files : relpath(k) = path

\* the selection the spec describes: the first five key paths, then the
\* first five other paths, each in traversal order
ExpectedSelection ==
    Prefix(SelectSeq(WalkerPaths, KeyPath), 5)
    \o Prefix(SelectSeq(WalkerPaths, OtherPath), 5)

ReadablePath(path) == FileUniverse[FileOfPath(path)].readable

C2_SelectionIsKeyThenOther ==
    ExplainedCodebase =>
        /\ resp.body.selection_made
        /\ resp.body.selected = ExpectedSelection

\* C3: for every selected file, the content placed in the selection is the
\* first 1500 characters of the file's content, and the whole content when
\* it has at most 1500 characters.
C3_ContentIsFirst1500 ==
    ExplainedCodebase =>
        \A i \in 1..Len(ExpectedSelection) :
            ReadablePath(ExpectedSelection[i]) =>
                \E j \in 1..Len(resp.body.file_contents) :
                    /\ resp.body.file_contents[j].path = ExpectedSelection[i]
                    /\ resp.body.file_contents[j].content =
                         [file  |-> FileOfPath(ExpectedSelection[i]),
                          chars |-> Min(1500,
                              FileUniverse[FileOfPath(ExpectedSelection[i])]
                                  .chars)]

\* the size the caps alone allow a prompt: the template, ten file blocks of
\* 1500 content characters each and the sentence carrying the question
PromptBound(question) ==
    TemplateChars + 10 * (BlockChars + 1500) + 9
    + QuestionChars + (IF Truthy(question) THEN Len(question) ELSE 0)

C5_UnreadableFilesSkipped ==
    ExplainedCodebase =>
        /\ resp.body.model_calls = 1
        /\ [j \in 1..Len(resp.body.file_contents) |->
               resp.body.file_contents[j].path]
           = SelectSeq(ExpectedSelection, ReadablePath)

----------------------------------------------------------------------------
(* Claims about the repository endpoints *)

\* C7: in the state a successful delete repository leaves, list files for
\* the same identifier answers Not Found; and list files answers Not Found
\* exactly when the repository root directory does not exist.
C7_DeleteThenListNotFound ==
    /\ (resp.op = "delete_repository" /\ resp.status = 200) =>
           \A filter \in Filters :
               api_get_repository_files(disk, resp.id, filter).status = 404
    /\ resp.op = "get_repository_files" =>
           (resp.status = 404 <=> ~Exists(disk, resp.id))

\* the answer the read request just served gets when it is repeated on the
\* disk d
Repeated(r, d) ==
    IF r.op = "get_repository_files"
    THEN api_get_repository_files(d, r.id, r.arg)
    ELSE api_get_file_content(d, r.id, r.arg)

DirPaths(t) ==
    UNION {{JoinWith(SubSeq(FileUniverse[k].dir, 1, n), "/") :
                n \in 1..Len(FileUniverse[k].dir)} : k \in t}

\* C9: list files without a filter returns exactly one FileEntry per
\* regular file of the tree, none for a directory, each with its
\* root-relative path spelled with forward slashes.
C9_OneEntryPerFile ==
    (/\ resp.op = "get_repository_files"
     /\ resp.arg = None
     /\ resp.status = 200)
    => LET files == resp.body.files
           tree  == disk[resp.id].files
       IN  /\ Len(files) = Cardinality(tree)
           /\ \A k \in tree :
                 Cardinality({i \in 1..Len(files) :
                     files[i].path =
                         JoinWith(FileUniverse[k].dir
                                  \o <<FileUniverse[k].name>>, "/")}) = 1
           /\ \A i \in 1..Len(files) : files[i].path \notin DirPaths(tree)

\* the extension of a file name: the characters after its last dot,
\* lower-cased; none when the name has no dot, has only dots before its
\* last dot, or ends in a dot
NameExtension(name) ==
    LET i == rfind(name, ".")
    IN  IF i = 0 \/ i = Len(name) \/ \A j \in 1..(i - 1) : name[j] = "."
        THEN << >>
        ELSE lower(SubSeq(name, i + 1, Len(name)))

\* the sum of the counts of a mapping
RECURSIVE Total(_)
Total(stats) ==
    IF DOMAIN stats = {} THEN 0
    ELSE LET e == CHOOSE e \in DOMAIN stats : TRUE
         IN  stats[e] + Total([x \in DOMAIN stats \ {e} |-> stats[x]])

\* C10: the language statistics of an analysed repository have only
\* non-empty lower-cased extensions as keys, count for each key the files
\* with that extension, and sum to the number of files with an extension.
C10_LanguageStats ==
    (/\ resp.op \in {"_process_zip_repository", "_process_git_repository"}
     /\ resp.body.exc = "")
    => LET stats == resp.body.repo_info.language_stats
           tree  == disk[resp.id].files
       IN  /\ \A e \in DOMAIN stats : e # << >> /\ e = lower(e)
           /\ \A e \in DOMAIN stats :
                 stats[e] = Cardinality({k \in tree :
                                NameExtension(FileUniverse[k].name) = e})
           /\ Total(stats) = Cardinality({k \in tree :
                                NameExtension(FileUniverse[k].name) # << >>})

\* the entries of a listing whose file name ends in "." + f
EndingIn(files, f) ==
    LET Ends(e) == endswith(e.name, <<".">> \o f)
    IN  SelectSeq(files, Ends)

\* C11: list files with a non-empty filter f returns exactly the entries of
\* the unfiltered listing of the same repository whose file name ends in
\* "." + f, in the same order; without a filter it returns the full listing.
C11_FilterSelectsByName ==
    resp.op = "get_repository_files" =>
        LET full == api_get_repository_files(disk, resp.id, None)
        IN  IF resp.arg = None
            THEN resp.status = 200 =>
                     Len(resp.body.files) = Cardinality(disk[resp.id].files)
            ELSE /\ resp.status = full.status
                 /\ resp.status = 200 =>
                        resp.body.files = EndingIn(full.body.files, resp.arg)

\* C12: every FileEntry of a served listing carries an extension that is
\* lower-cased and has no leading dot (X.PY is listed with extension "py").
C12_ExtensionLowerCased ==
    (resp.op = "get_repository_files" /\ resp.status = 200) =>
        \A i \in 1..Len(resp.body.files) :
            LET extension == resp.body.files[i].extension
            IN  /\ extension = lower(extension)
                /\ extension # << >> => Head(extension) # "."

----------------------------------------------------------------------------
(* Claims about acquisition *)

\* C13: whenever upload_zip_repository has finished, by returning or by
\* raising, the uploaded temporary archive no longer exists: an archive is
\* in TEMP_DIR only while the task that will process it is still to run.
C13_TempFileRemoved ==
    /\ \A id \in temp : repos[id].task = "_process_zip_repository"
    /\ resp.op = "_process_zip_repository" => resp.id \notin temp

\* C13 happens: archive processing has raised
C13_Witness ==
    /\ resp.op = "_process_zip_repository"
    /\ resp.body.exc = "BadZipFile"
    /\ resp.id \notin temp

\* the details of the validation errors of create repository
ValidationDetails ==
    {"Source URL is required for GitHub/Git repositories",
     "File upload is required for ZIP repositories",
     "Unsupported repository source"}

\* C14: create repository with a missing required field or an unsupported
\* source kind is answered with status 400, not with status 500.
C14_ValidationIs400 ==
    (/\ resp.op = "create_repository"
     /\ "detail" \in DOMAIN resp.body
     /\ resp.body.detail \in ValidationDetails)
    => resp.status = 400

ProcessingTasks == {"_process_git_repository", "_process_zip_repository"}

\* C15: a background processing task finds the repository status
\* "processing" and ends with it "ready" when acquisition and analysis
\* returned and "error" when a step raised; no repository is "processing"
\* once its task has ended.
C15_TaskEndsReadyOrError ==
    [][/\ resp'.op \in ProcessingTasks =>
             /\ repos[resp'.id].status = "processing"
             /\ repos'[resp'.id].status =
                    IF resp'.body.exc = "" THEN "ready" ELSE "error"
             /\ repos'[resp'.id].task = ""
       /\ \A id \in RepoIds :
             repos'[id].status = "processing" => repos'[id].task # ""]_vars

\* C15 happens: a clone has raised and the repository is marked "error"
C15_Witness ==
    /\ resp.op = "_process_git_repository"
    /\ resp.body.exc = "GitCommandError"
    /\ repos[resp.id].status = "error"

\* the regular files of tree t
RegularFiles(t) == {k \in t : ~FileUniverse[k].broken}

\* the extension counts of the regular files of tree t
ExtensionCounts(t) ==
    [e \in {NameExtension(FileUniverse[k].name) : k \in RegularFiles(t)}
           \ {<< >>} |->
        Cardinality({k \in RegularFiles(t) :
                        NameExtension(FileUniverse[k].name) = e})]

\* C16: when a task marks a Repository "ready", its file count is the
\* number of regular files under its root and its language statistics are
\* the extension counts of those files; while the status is "ready" no
\* later step changes the two fields.
C16_ReadyStatsAreThoseOfAnalysis ==
    [][\A id \in RepoIds :
          /\ (/\ resp'.op \in ProcessingTasks
              /\ resp'.id = id
              /\ repos'[id].status = "ready")
             => /\ repos'[id].file_count
                      = Cardinality(RegularFiles(disk'[id].files))
                /\ repos'[id].language_stats
                      = ExtensionCounts(disk'[id].files)
          /\ repos[id].status = "ready"
             => /\ repos'[id].file_count = repos[id].file_count
                /\ repos'[id].language_stats = repos[id].language_stats]_vars

----------------------------------------------------------------------------
(* Claims about what the server keeps between requests *)

\* C17: whatever repositories and questions have been created, list
\* repositories answers an empty list, list questions of a repository
\* answers an empty list, and get question answers 404, also for the id of
\* a question create question has returned.
C17_NothingPersisted ==
    /\ resp.op = "list_repositories"
       => resp.status = 200 /\ resp.body.list = << >>
    /\ resp.op = "get_repository_questions"
       => resp.status = 200 /\ resp.body.list = << >>
    /\ resp.op = "get_question" => resp.status = 404

\* get question is asked for a question that was created and answered (its
\* audio file is there), after a repository was created as well
C17_Witness ==
    /\ resp.op = "get_question"
    /\ resp.arg[1] \in audio
    /\ \E id \in RepoIds : repos[id].status # ""

\* C18: get repository answers 200 exactly when the directory of the
\* identifier exists under the uploads root and 404 exactly when it does
\* not, whatever Repository object is in memory.
C18_FoundIffDirectoryExists ==
    resp.op = "get_repository"
    => /\ resp.status = 200 <=> Exists(disk, resp.id)
       /\ resp.status = 404 <=> ~Exists(disk, resp.id)

\* a repository is found although no Repository object was made for it
C18_Witness ==
    /\ resp.op = "get_repository"
    /\ resp.status = 200
    /\ repos[resp.id] = NoRepository

\* C19: delete repository answers 404 when the directory of the identifier
\* does not exist; when it exists and 200 is answered, the whole tree is
\* gone.
C19_DeleteMissingIs404 ==
    [][\A id \in RepoIds :
          (resp'.op = "delete_repository" /\ resp'.id = id /\ Idle)
          => /\ ~Exists(disk, id) => resp'.status = 404 /\ disk' = disk
             /\ (Exists(disk, id) /\ resp'.status = 200)
                => disk'[id] = NoDir]_vars

\* C20: when the text-generation call or the speech call fails, create
\* question answers an error; it never answers 200 with a Question whose
\* response is None.
C20_FailedQuestionIsError ==
    resp.op = "create_question"
    => /\ (\/ ~resp.arg.gemini_ok
           \/ resp.arg.reply \in {"dict", "text"} /\ ~resp.arg.voice_ok)
          => resp.status >= 400
       /\ ~(resp.status = 200 /\ resp.body.response = NoQuestionResponse)

----------------------------------------------------------------------------
(* Claims about the answer to a question *)

\* C21: when both external calls succeed, a reply that is no JSON gives a
\* response whose text_response is the whole reply, with empty
\* code_snippets and references, and a reply that is a JSON object gives a
\* response with the object's text_response, code_snippets and references.
C21_ReplyShapes ==
    (resp.op = "create_question" /\ resp.arg.gemini_ok /\ resp.arg.voice_ok)
    => /\ resp.arg.reply = "text"
          => /\ resp.body.response.text_response = resp.arg.raw.text
             /\ resp.body.response.code_snippets = << >>
             /\ resp.body.response.references = << >>
       /\ resp.arg.reply = "dict"
          => /\ resp.body.response.text_response = resp.arg.raw.text
             /\ resp.body.response.code_snippets = resp.arg.raw.code_snippets
             /\ resp.body.response.references = resp.arg.raw.references

\* C30: when the text-generation call and the speech call both succeed,
\* create question answers 200 with a Question whose response is present,
\* whatever the reply.
C30_AnsweredWhenCallsSucceed ==
    (resp.op = "create_question" /\ resp.arg.gemini_ok /\ resp.arg.voice_ok)
    => /\ resp.status = 200
       /\ resp.body.response # NoQuestionResponse

----------------------------------------------------------------------------
(* Claims about the files a request can reach *)

\* C29: get file content answers 200 only with the content of a regular
\* file that the path names under the root of the requested repository;
\* for every other path it answers 404.
C29_ContentFromOwnRoot ==
    resp.op = "get_file_content"
    => \/ resp.status = 404
       \/ /\ resp.status = 200
          /\ Exists(disk, resp.id)
          /\ resp.body.content.file
                 \in FilesAt(disk[resp.id].files, Components(resp.arg, << >>))

\* C26: create question for an identifier that has no directory answers
\* 404 and leaves the uploads root as it was.
C26_QuestionOnMissingRepository ==
    [][\A id \in RepoIds :
          (/\ Idle
           /\ resp'.op = "create_question"
           /\ resp'.id = id
           /\ ~Exists(disk, id))
          => resp'.status = 404 /\ disk' = disk]_vars

\* C27: get repository answers status "ready" only for an identifier whose
\* background task has ended with the Repository "ready".
C27_ReadyOnlyWhenAcquired ==
    (/\ resp.op = "get_repository"
     /\ resp.status = 200
     /\ resp.body.status = "ready")
    => repos[resp.id].status = "ready"

\* delete repository has just answered 200 for identifier id
DeleteReportedSuccess(id) ==
    resp.op = "delete_repository" /\ resp.id = id /\ resp.status = 200

\* list files or get repository has just answered for identifier id
ReadAnswered(id) ==
    resp.op \in {"get_repository_files", "get_repository"} /\ resp.id = id

\* C28: once delete repository has answered 200 for an identifier, every
\* later list files and get repository for it answers 404.
C28_DeletedStaysNotFound ==
    \A id \in RepoIds :
        [](DeleteReportedSuccess(id)
           => [](ReadAnswered(id) => resp.status = 404))

\* C22: a handler or background task that has run for one identifier
\* leaves the directory tree of every other identifier as it was, whatever
\* requests and tasks came between.
C22_OtherTreesUntouched ==
    [][\A b \in RepoIds : resp'.id # b => disk'[b] = disk[b]]_vars

\* a tree was removed for one identifier while another identifier holds
\* files and a third request, the acquisition of the first, is still open
C22_Witness ==
    \E a \in RepoIds :
        /\ DeleteReportedSuccess(a)
        /\ repos[a].status = "processing"
        /\ \E b \in RepoIds \ {a} : disk[b].files # {}

----------------------------------------------------------------------------
(* Claims about the audio files *)

\* the answer of DELETE /files/{filename} that says the deletion is scheduled
ScheduledAnswer(filename) ==
    /\ resp.op = "delete_audio_file"
    /\ resp.arg = <<filename>>
    /\ resp.status = 200
    /\ resp.body.detail = "Audio file deletion scheduled"

\* DELETE /files/{filename} answers "scheduled" with a task waiting for the
\* name and the audio directory as it was
C23_AnsweredBeforeRemoval ==
    [][resp'.op = "delete_audio_file" =>
          /\ \E filename \in AudioNames :
                ScheduledAnswer(filename)' /\ filename \in deleting'
          /\ audio' = audio]_vars

\* a file leaves the audio directory only by the task scheduled for its name
C23_OnlyNamedRemoved ==
    [][\A filename \in audio \ audio' :
          /\ filename \in deleting
          /\ resp'.op = "delete_audio"
          /\ resp'.arg = <<filename>>]_vars

\* the task for the name has run and os.remove raised
RemovalFailed(filename) ==
    /\ resp.op = "delete_audio"
    /\ resp.arg = <<filename>>
    /\ resp.body.ret = FALSE
    /\ filename \in audio

----------------------------------------------------------------------------
(* Claims about the phone calls *)

\* C24: get call status with the id "config-status" answers the result of
\* the local configuration check, an error when the key or the URL of the
\* Bland AI API is unset and ok otherwise, and sends nothing to the API;
\* with any other id it sends exactly one status request, for that id
C24_SentinelIsLocal ==
    resp.op = "get_call_status" =>
        IF resp.arg.call_id = "config-status"
        THEN /\ bland = << >>
             /\ resp.status = 200
             /\ resp.body.status =
                    IF \/ settings.BLAND_API_KEY = << >>
                       \/ settings.BLAND_API_URL = << >>
                    THEN "error" ELSE "ok"
        ELSE /\ Len(bland) = 1
             /\ bland[1].api = "get_call_status"
             /\ bland[1].call_id = resp.arg.call_id

\* the sentinel was asked of a server with a key and without a URL
C24_Witness ==
    /\ resp.op = "get_call_status"
    /\ resp.arg.call_id = "config-status"
    /\ settings.BLAND_API_KEY # << >>
    /\ settings.BLAND_API_URL = << >>
    /\ resp.body.status = "error"

\* the places in bland of the requests sent to one operation of the API
Sent(api) == {i \in 1..Len(bland) : bland[i].api = api}

\* C25: make phone call asks for a knowledge base only when the request has
\* no knowledge_base_id and has the text, the name and the description, and
\* before it places the call; the call carries the knowledge-base id as its
\* tools exactly when the request gave one or the creation succeeded; after
\* a failed creation the call is still placed, without tools, with a task
\* that holds no more than the first 5000 characters of the text
C25_KnowledgeBaseBeforeCall ==
    resp.op = "make_phone_call" =>
        LET request == resp.arg.request
            given   == request.knowledge_base_id # None
        IN  /\ Sent("create_knowledge_base") # {} =>
                  /\ ~given
                  /\ request.knowledge_base_text.given
                  /\ request.knowledge_base_name # None
                  /\ request.knowledge_base_description # None
            /\ \A i \in Sent("create_knowledge_base") :
                  \A j \in Sent("make_phone_call") : i < j
            /\ \A j \in Sent("make_phone_call") :
                  IF given
                  THEN bland[j].tools = <<request.knowledge_base_id>>
                  ELSE IF \E i \in Sent("create_knowledge_base") : bland[i].ok
                  THEN bland[j].tools = <<NewVectorId>>
                  ELSE bland[j].tools = << >>
            /\ \A i \in Sent("create_knowledge_base") :
                  ~bland[i].ok =>
                      /\ Sent("make_phone_call") # {}
                      /\ \A j \in Sent("make_phone_call") :
                            /\ bland[j].tools = << >>
                            /\ bland[j].task.preview.given
                            /\ bland[j].task.preview.chars <= PreviewLimit
                            /\ bland[j].task.preview.chars
                                   <= request.knowledge_base_text.chars

\* the creation failed for a text longer than the preview and the call was
\* placed
C25_Witness ==
    /\ resp.op = "make_phone_call"
    /\ resp.arg.request.knowledge_base_text.chars > PreviewLimit
    /\ \E i \in Sent("create_knowledge_base") : ~bland[i].ok
    /\ \E j \in Sent("make_phone_call") :
          bland[j].task.preview.chars = PreviewLimit

====
